---------------------------- MODULE Spec2Model ----------------------------
(***************************************************************************)
(* A model of src/inve.py: the InventoryAnalyzer class (value conversion,  *)
(* column resolution, record standardization, variance classification and  *)
(* aggregation) and the data-loading part of main().                       *)
(*                                                                         *)
(* Text is a sequence of one-character strings, so that strip, lower,      *)
(* replace and float() act on characters.  A Python float is an exact      *)
(* rational n/d in lowest terms, or +inf, -inf or nan; comparisons and     *)
(* arithmetic follow IEEE 754 for the three special values.  Rounding of   *)
(* binary floating point is not modelled: finite arithmetic is exact.      *)
(***************************************************************************)
EXTENDS Integers, Sequences, FiniteSets, TLC

(***************************************************************************)
(* Bounds of the model.                                                    *)
(***************************************************************************)
\* longest text handed to the converters in SpecConv
MaxLen == 3
\* most rows of an uploaded table in Spec
MaxRows == 2
\* most records handed to process_data in SpecProcess
MaxRecs == 2

(***************************************************************************)
(* Python floats.                                                          *)
(***************************************************************************)
AbsInt(i) == IF i < 0 THEN -i ELSE i

SgnInt(i) == IF i < 0 THEN -1 ELSE IF i > 0 THEN 1 ELSE 0

RECURSIVE GCD(_, _)
GCD(a, b) == IF b = 0 THEN a ELSE GCD(b, a % b)

\* the finite float n/d (d > 0), in lowest terms
Fin(n, d) ==
    LET g == GCD(AbsInt(n), d)
    IN  [k |-> "fin", n |-> SgnInt(n) * (AbsInt(n) \div g), d |-> d \div g]

PInf == [k |-> "inf", n |-> 1, d |-> 1]

NInf == [k |-> "inf", n |-> -1, d |-> 1]

NaN == [k |-> "nan", n |-> 0, d |-> 1]

IsNaN(a) == a.k = "nan"

IsFin(a) == a.k = "fin"

\* a < b on floats: false as soon as one side is nan
FLt(a, b) ==
    /\ ~IsNaN(a)
    /\ ~IsNaN(b)
    /\ IF IsFin(a) /\ IsFin(b) THEN a.n * b.d < b.n * a.d
       ELSE IF IsFin(a) THEN b = PInf
       ELSE IF IsFin(b) THEN a = NInf
       ELSE a = NInf /\ b = PInf

\* a == b on floats: nan equals nothing
FEq(a, b) == ~IsNaN(a) /\ ~IsNaN(b) /\ a = b

FLe(a, b) == FLt(a, b) \/ FEq(a, b)

FGt(a, b) == FLt(b, a)

FGe(a, b) == FLe(b, a)

FNeg(a) == IF IsNaN(a) THEN NaN ELSE [a EXCEPT !.n = -a.n]

\* abs(a)
FAbs(a) == IF IsNaN(a) THEN NaN ELSE [a EXCEPT !.n = AbsInt(a.n)]

\* a + b
FAdd(a, b) ==
    IF IsNaN(a) \/ IsNaN(b) THEN NaN
    ELSE IF IsFin(a) /\ IsFin(b) THEN Fin(a.n * b.d + b.n * a.d, a.d * b.d)
    ELSE IF IsFin(a) THEN b
    ELSE IF IsFin(b) THEN a
    ELSE IF a = b THEN a ELSE NaN

\* a - b
FSub(a, b) == FAdd(a, FNeg(b))

\* a * b
FMul(a, b) ==
    IF IsNaN(a) \/ IsNaN(b) THEN NaN
    ELSE IF IsFin(a) /\ IsFin(b) THEN Fin(a.n * b.n, a.d * b.d)
    ELSE IF a.n = 0 \/ b.n = 0 THEN NaN
    ELSE IF SgnInt(a.n) * SgnInt(b.n) > 0 THEN PInf ELSE NInf

\* a / b, for b # 0 (the one division of the program is guarded by rm == 0)
FDiv(a, b) ==
    IF IsNaN(a) \/ IsNaN(b) THEN NaN
    ELSE IF IsFin(a) /\ IsFin(b)
         THEN Fin(a.n * b.d * SgnInt(b.n), a.d * AbsInt(b.n))
    ELSE IF IsFin(a) THEN Fin(0, 1)
    ELSE IF IsFin(b)
         THEN (IF SgnInt(a.n) * SgnInt(b.n) > 0 THEN PInf ELSE NInf)
    ELSE NaN

\* a finite float cut to its integer part, toward zero
TruncToInt(a) == SgnInt(a.n) * (AbsInt(a.n) \div a.d)

(***************************************************************************)
(* Python text.                                                            *)
(***************************************************************************)
Digits == <<"0", "1", "2", "3", "4", "5", "6", "7", "8", "9">>

IsDigit(c) == \E i \in 1..10 : Digits[i] = c

DigitVal(c) == (CHOOSE i \in 1..10 : Digits[i] = c) - 1

Upper == <<"A", "B", "C", "D", "E", "F", "G", "H", "I", "J", "K", "L", "M",
           "N", "O", "P", "Q", "R", "S", "T", "U", "V", "W", "X", "Y", "Z">>

LowerLetters == <<"a", "b", "c", "d", "e", "f", "g", "h", "i", "j", "k", "l", "m",
                  "n", "o", "p", "q", "r", "s", "t", "u", "v", "w", "x", "y", "z">>

\* the lower-case letter of each upper-case letter
LowerMap == [c \in {Upper[i] : i \in 1..26} |-> LowerLetters[CHOOSE i \in 1..26 : Upper[i] = c]]

LowerChar(c) == IF c \in DOMAIN LowerMap THEN LowerMap[c] ELSE c

\* s.lower()
Lower(s) == [i \in 1..Len(s) |-> LowerChar(s[i])]

\* s.replace(old, new) for single characters
Replace(s, old, new) == [i \in 1..Len(s) |-> IF s[i] = old THEN new ELSE s[i]]

\* s.replace(c, '')
Remove(s, c) == SelectSeq(s, LAMBDA x : x # c)

\* the whitespace characters of the model: the space and the tab
Whitespace == {" ", "\t"}

RECURSIVE LStrip(_)
LStrip(s) == IF s # <<>> /\ Head(s) \in Whitespace THEN LStrip(Tail(s)) ELSE s

RECURSIVE RStrip(_)
RStrip(s) ==
    IF s # <<>> /\ s[Len(s)] \in Whitespace
    THEN RStrip(SubSeq(s, 1, Len(s) - 1)) ELSE s

\* s.strip()
Strip(s) == RStrip(LStrip(s))

RECURSIVE Pow10(_)
Pow10(e) == IF e = 0 THEN 1 ELSE 10 * Pow10(e - 1)

RECURSIVE DigitsToNat(_)
DigitsToNat(s) ==
    IF s = <<>> THEN 0
    ELSE 10 * DigitsToNat(SubSeq(s, 1, Len(s) - 1)) + DigitVal(s[Len(s)])

RECURSIVE NatToDigits(_)
NatToDigits(n) ==
    IF n < 10 THEN <<Digits[n + 1]>>
    ELSE NatToDigits(n \div 10) \o <<Digits[(n % 10) + 1]>>

\* the decimal digits of r/d, 0 <= r < d, for a d whose expansion ends
RECURSIVE FracDigits(_, _)
FracDigits(r, d) ==
    IF r = 0 THEN <<>>
    ELSE <<Digits[((10 * r) \div d) + 1]>> \o FracDigits((10 * r) % d, d)

ValueError == [k |-> "ValueError", n |-> 0, d |-> 1]

OverflowError == [k |-> "OverflowError", n |-> 0, d |-> 1]

\* float(s) for a text s: a float, or ValueError; whitespace around the
\* number is ignored.  The characters of the model hold no exponent marker
\* and no underscore.
PyFloat(s) ==
    LET text   == Strip(s)
        signed == text # <<>> /\ text[1] \in {"+", "-"}
        sgn    == IF text # <<>> /\ text[1] = "-" THEN -1 ELSE 1
        body   == IF signed THEN Tail(text) ELSE text
        low    == Lower(body)
        dots   == {i \in 1..Len(body) : body[i] = "."}
        digs   == SelectSeq(body, IsDigit)
        point  == IF dots = {} THEN Len(body) ELSE CHOOSE i \in dots : TRUE
    IN  IF low \in {<<"i", "n", "f">>, <<"i", "n", "f", "i", "n", "i", "t", "y">>}
        THEN (IF sgn = 1 THEN PInf ELSE NInf)
        ELSE IF low = <<"n", "a", "n">> THEN NaN
        ELSE IF /\ \A i \in 1..Len(body) : IsDigit(body[i]) \/ body[i] = "."
                /\ Cardinality(dots) <= 1
                /\ digs # <<>>
             THEN Fin(sgn * DigitsToNat(digs), Pow10(Len(body) - point))
             ELSE ValueError

\* str(x) for a float x
FloatStr(x) ==
    IF IsNaN(x) THEN <<"n", "a", "n">>
    ELSE IF ~IsFin(x)
         THEN (IF x.n < 0 THEN <<"-">> ELSE <<>>) \o <<"i", "n", "f">>
    ELSE LET a    == AbsInt(x.n)
             frac == FracDigits(a % x.d, x.d)
         IN  (IF x.n < 0 THEN <<"-">> ELSE <<>>)
                \o NatToDigits(a \div x.d) \o <<".">>
                \o (IF frac = <<>> THEN <<"0">> ELSE frac)

\* str(i) for an int i
IntStr(i) == (IF i < 0 THEN <<"-">> ELSE <<>>) \o NatToDigits(AbsInt(i))

(***************************************************************************)
(* Cell values of a table: the missing value (NaN), None, text, float,    *)
(* int.                                                                    *)
(***************************************************************************)
NaNCell == [t |-> "nan", s |-> <<>>, x |-> NaN]

NoneCell == [t |-> "none", s |-> <<>>, x |-> NaN]

TextCell(s) == [t |-> "str", s |-> s, x |-> NaN]

FloatCell(x) == [t |-> "float", s |-> <<>>, x |-> x]

IntCell(i) == [t |-> "int", s |-> <<>>, x |-> Fin(i, 1)]

\* str(value)
PyStr(value) ==
    CASE value.t = "nan" -> <<"n", "a", "n">>
      [] value.t = "none" -> <<"N", "o", "n", "e">>
      [] value.t = "str" -> value.s
      [] value.t = "float" -> FloatStr(value.x)
      [] value.t = "int" -> IntStr(value.x.n)

\* pd.isna(value) or value == '' or value is None
IsBlank(value) ==
    \/ value.t = "nan"
    \/ value.t = "none"
    \/ value.t = "float" /\ IsNaN(value.x)
    \/ value.t = "str" /\ value.s = <<>>

\* InventoryAnalyzer.safe_float_convert
safe_float_convert(value) ==
    IF IsBlank(value) THEN Fin(0, 1)
    ELSE LET stripped == Strip(PyStr(value))
             cleaned  == Remove(Remove(stripped, ","), " ")
             str_value == IF cleaned # <<>> /\ cleaned[Len(cleaned)] = "%"
                          THEN SubSeq(cleaned, 1, Len(cleaned) - 1)
                          ELSE cleaned
             parsed   == PyFloat(str_value)
         IN  IF parsed = ValueError THEN Fin(0, 1) ELSE parsed

\* int(x) for a float x: an int, or the exception it raises
PyInt(x) ==
    IF x = ValueError THEN ValueError
    ELSE IF IsNaN(x) THEN ValueError
    ELSE IF ~IsFin(x) THEN OverflowError
    ELSE Fin(TruncToInt(x), 1)

\* InventoryAnalyzer.safe_int_convert: an int (as Fin(i, 1)), or the
\* OverflowError that its except clause does not catch
safe_int_convert(value) ==
    IF IsBlank(value) THEN Fin(0, 1)
    ELSE LET stripped == Strip(PyStr(value))
             str_value == Remove(Remove(stripped, ","), " ")
             parsed   == PyInt(PyFloat(str_value))
         IN  IF parsed = ValueError THEN Fin(0, 1) ELSE parsed

(***************************************************************************)
(* InventoryAnalyzer.load_sample_data.                                     *)
(***************************************************************************)
inventory_sample ==
    << << <<"A", "C", "0", "3", "0", "3", "0", "2", "0", "1", "0", "6">>,
         <<"F", "L", "A", "T", " ", "A", "L", "U", "M", "I", "N", "I", "U", "M", " ", "P", "R", "O", "F", "I", "L", "E">>,
         <<"5", ".", "2", "3", "0">>,
         <<"4", ".", "0", "0", "0">>,
         <<"4", "9", "6">>,
         <<"V", "e", "n", "d", "o", "r", "_", "A">> >>,
       << <<"A", "C", "0", "3", "0", "3", "0", "2", "0", "1", "0", "5">>,
         <<"R", "A", "I", "N", " ", "G", "U", "T", "T", "E", "R", " ", "P", "R", "O", "F", "I", "L", "E">>,
         <<"8", ".", "3", "6", "0">>,
         <<"6", ".", "0", "0", "0">>,
         <<"1", "9", "8", "4">>,
         <<"V", "e", "n", "d", "o", "r", "_", "B">> >>,
       << <<"A", "A", "0", "1", "0", "6", "0", "1", "0", "0", "0", "1">>,
         <<"H", "Y", "D", "R", "A", "U", "L", "I", "C", " ", "P", "O", "W", "E", "R", " ", "S", "T", "E", "E", "R", "I", "N", "G", " ", "O", "I", "L">>,
         <<"1", "2", ".", "5", "0", "0">>,
         <<"1", "0", ".", "0", "0", "0">>,
         <<"2", "3", "5", "6">>,
         <<"V", "e", "n", "d", "o", "r", "_", "A">> >>,
       << <<"A", "C", "0", "2", "0", "3", "0", "2", "0", "0", "7", "7">>,
         <<"B", "u", "l", "b", " ", "b", "e", "a", "d", "i", "n", "g", " ", "L", "V", " ", "b", "a", "t", "t", "e", "r", "y", " ", "f", "l", "a", "p">>,
         <<"3", ".", "5", "0", "0">>,
         <<"3", ".", "0", "0", "0">>,
         <<"2", "4", "8">>,
         <<"V", "e", "n", "d", "o", "r", "_", "C">> >>,
       << <<"A", "C", "0", "3", "0", "3", "0", "2", "0", "1", "0", "4">>,
         <<"L", "-", " ", "P", "R", "O", "F", "I", "L", "E", " ", "J", "A", "M", " ", "P", "I", "L", "L", "A", "R">>,
         <<"1", "5", ".", "9", "4", "0">>,
         <<"2", "0", ".", "0", "0", "0">>,
         <<"9", "9", "2">>,
         <<"V", "e", "n", "d", "o", "r", "_", "A">> >>,
       << <<"A", "A", "0", "1", "1", "2", "0", "1", "4", "0", "0", "0">>,
         <<"C", "o", "n", "d", "u", "i", "t", " ", "P", "i", "p", "e", " ", "F", "i", "l", "t", "e", "r", " ", "t", "o", " ", "C", "o", "m", "p", "r", "e", "s", "s", "o", "r">>,
         <<"2", "5">>,
         <<"3", "0">>,
         <<"1", "2", "4", "8">>,
         <<"V", "e", "n", "d", "o", "r", "_", "B">> >>,
       << <<"A", "A", "0", "1", "1", "5", "1", "2", "0", "0", "0", "1">>,
         <<"H", "V", "P", "D", "U", " ", "m", "s">>,
         <<"1", "8">>,
         <<"1", "2">>,
         <<"1", "8", "8", "8">>,
         <<"V", "e", "n", "d", "o", "r", "_", "D">> >>,
       << <<"A", "A", "0", "1", "1", "9", "0", "2", "0", "0", "1", "7">>,
         <<"R", "E", "A", "R", " ", "T", "U", "R", "N", " ", "I", "N", "D", "I", "C", "A", "T", "O", "R">>,
         <<"3", "5">>,
         <<"4", "0">>,
         <<"1", "5", "1", "2">>,
         <<"V", "e", "n", "d", "o", "r", "_", "C">> >>,
       << <<"A", "A", "0", "1", "1", "9", "0", "2", "0", "0", "1", "9">>,
         <<"R", "E", "V", "E", "R", "S", "I", "N", "G", " ", "L", "A", "M", "P">>,
         <<"2", "8">>,
         <<"2", "0">>,
         <<"1", "1", "5", "2">>,
         <<"V", "e", "n", "d", "o", "r", "_", "A">> >>,
       << <<"A", "A", "0", "8", "2", "2", "0", "1", "0", "8", "0", "0">>,
         <<"S", "I", "D", "E", " ", "D", "I", "S", "P", "L", "A", "Y", " ", "B", "O", "A", "R", "D">>,
         <<"4", "2">>,
         <<"5", "0">>,
         <<"2", "4", "9", "6">>,
         <<"V", "e", "n", "d", "o", "r", "_", "B">> >>,
       << <<"B", "B", "0", "1", "0", "1", "0", "1", "0", "0", "0", "1">>,
         <<"E", "N", "G", "I", "N", "E", " ", "O", "I", "L", " ", "F", "I", "L", "T", "E", "R">>,
         <<"6", "5">>,
         <<"4", "5">>,
         <<"1", "3", "0", "0">>,
         <<"V", "e", "n", "d", "o", "r", "_", "E">> >>,
       << <<"B", "B", "0", "2", "0", "2", "0", "2", "0", "0", "0", "2">>,
         <<"B", "R", "A", "K", "E", " ", "P", "A", "D", " ", "S", "E", "T">>,
         <<"2", "2">>,
         <<"2", "5">>,
         <<"8", "8", "0">>,
         <<"V", "e", "n", "d", "o", "r", "_", "C">> >>,
       << <<"C", "C", "0", "3", "0", "3", "0", "3", "0", "0", "0", "3">>,
         <<"C", "L", "U", "T", "C", "H", " ", "D", "I", "S", "C">>,
         <<"8">>,
         <<"1", "2">>,
         <<"6", "4", "0">>,
         <<"V", "e", "n", "d", "o", "r", "_", "D">> >>,
       << <<"D", "D", "0", "4", "0", "4", "0", "4", "0", "0", "0", "4">>,
         <<"S", "P", "A", "R", "K", " ", "P", "L", "U", "G">>,
         <<"4", "5">>,
         <<"3", "5">>,
         <<"4", "5", "0">>,
         <<"V", "e", "n", "d", "o", "r", "_", "A">> >>,
       << <<"E", "E", "0", "5", "0", "5", "0", "5", "0", "0", "0", "5">>,
         <<"A", "I", "R", " ", "F", "I", "L", "T", "E", "R">>,
         <<"3", "0">>,
         <<"2", "8">>,
         <<"6", "0", "0">>,
         <<"V", "e", "n", "d", "o", "r", "_", "B">> >>,
       << <<"F", "F", "0", "6", "0", "6", "0", "6", "0", "0", "0", "6">>,
         <<"F", "U", "E", "L", " ", "F", "I", "L", "T", "E", "R">>,
         <<"5", "5">>,
         <<"5", "0">>,
         <<"1", "1", "0", "0">>,
         <<"V", "e", "n", "d", "o", "r", "_", "E">> >>,
       << <<"G", "G", "0", "7", "0", "7", "0", "7", "0", "0", "0", "7">>,
         <<"T", "R", "A", "N", "S", "M", "I", "S", "S", "I", "O", "N", " ", "O", "I", "L">>,
         <<"4", "0">>,
         <<"3", "5">>,
         <<"8", "0", "0">>,
         <<"V", "e", "n", "d", "o", "r", "_", "C">> >>,
       << <<"H", "H", "0", "8", "0", "8", "0", "8", "0", "0", "0", "8">>,
         <<"C", "O", "O", "L", "A", "N", "T">>,
         <<"2", "2">>,
         <<"3", "0">>,
         <<"6", "6", "0">>,
         <<"V", "e", "n", "d", "o", "r", "_", "D">> >>,
       << <<"I", "I", "0", "9", "0", "9", "0", "9", "0", "0", "0", "9">>,
         <<"B", "R", "A", "K", "E", " ", "F", "L", "U", "I", "D">>,
         <<"1", "5">>,
         <<"1", "2">>,
         <<"3", "0", "0">>,
         <<"V", "e", "n", "d", "o", "r", "_", "A">> >>,
       << <<"J", "J", "1", "0", "1", "0", "1", "0", "1", "0", "1", "0">>,
         <<"W", "I", "N", "D", "S", "H", "I", "E", "L", "D", " ", "W", "A", "S", "H", "E", "R">>,
         <<"3", "3">>,
         <<"2", "5">>,
         <<"4", "9", "5">>,
         <<"V", "e", "n", "d", "o", "r", "_", "B">> >> >>

\* one dictionary of load_sample_data's result
SampleItem(row) ==
    [Material |-> row[1],
     Description |-> row[2],
     QTY |-> safe_float_convert(TextCell(row[3])),
     RM_IN_QTY |-> safe_float_convert(TextCell(row[4])),
     Stock_Value |-> safe_int_convert(TextCell(row[5])).n,
     Vendor |-> row[6]]

load_sample_data == [i \in DOMAIN inventory_sample |-> SampleItem(inventory_sample[i])]

(***************************************************************************)
(* InventoryAnalyzer.standardize_inventory_data.  A table df is a record   *)
(* of its column names, in order, and its rows, each a sequence of cells   *)
(* aligned with the columns.                                               *)
(***************************************************************************)
qty_columns ==
    << <<"q", "t", "y">>,
       <<"q", "u", "a", "n", "t", "i", "t", "y">>,
       <<"c", "u", "r", "r", "e", "n", "t", "_", "q", "t", "y">>,
       <<"s", "t", "o", "c", "k", "_", "q", "t", "y">> >>

rm_columns ==
    << <<"r", "m">>,
       <<"r", "m", "_", "q", "t", "y">>,
       <<"r", "e", "q", "u", "i", "r", "e", "d", "_", "q", "t", "y">>,
       <<"n", "o", "r", "m", "_", "q", "t", "y">>,
       <<"t", "a", "r", "g", "e", "t", "_", "q", "t", "y">>,
       <<"r", "m", "_", "i", "n", "_", "q", "t", "y">>,
       <<"r", "i", "_", "i", "n", "_", "q", "t", "y">> >>

material_columns ==
    << <<"m", "a", "t", "e", "r", "i", "a", "l">>,
       <<"m", "a", "t", "e", "r", "i", "a", "l", "_", "c", "o", "d", "e">>,
       <<"p", "a", "r", "t", "_", "n", "u", "m", "b", "e", "r">>,
       <<"i", "t", "e", "m", "_", "c", "o", "d", "e">>,
       <<"c", "o", "d", "e">>,
       <<"p", "a", "r", "t", "_", "n", "o">> >>

desc_columns ==
    << <<"d", "e", "s", "c", "r", "i", "p", "t", "i", "o", "n">>,
       <<"i", "t", "e", "m", "_", "d", "e", "s", "c", "r", "i", "p", "t", "i", "o", "n">>,
       <<"p", "a", "r", "t", "_", "d", "e", "s", "c", "r", "i", "p", "t", "i", "o", "n">>,
       <<"d", "e", "s", "c">> >>

value_columns ==
    << <<"s", "t", "o", "c", "k", "_", "v", "a", "l", "u", "e">>,
       <<"v", "a", "l", "u", "e">>,
       <<"a", "m", "o", "u", "n", "t">>,
       <<"c", "o", "s", "t">> >>

vendor_columns ==
    << <<"v", "e", "n", "d", "o", "r">>,
       <<"v", "e", "n", "d", "o", "r", "_", "n", "a", "m", "e">>,
       <<"s", "u", "p", "p", "l", "i", "e", "r">>,
       <<"s", "u", "p", "p", "l", "i", "e", "r", "_", "n", "a", "m", "e">> >>

\* Python's None for a column variable
NoColumn == <<"None">>

Unknown == <<"U", "n", "k", "n", "o", "w", "n">>

\* k.lower().replace(' ', '_')
NormalizeName(k) == Replace(Lower(k), " ", "_")

MaxOf(S) == CHOOSE i \in S : \A j \in S : j <= i

MinOf(S) == CHOOSE i \in S : \A j \in S : i <= j

\* the dictionary in which the first column under a key stays
AvailableColumnsFirstWins(columns) ==
    [key \in {NormalizeName(columns[i]) : i \in DOMAIN columns} |->
        columns[MinOf({i \in DOMAIN columns : NormalizeName(columns[i]) = key})]]

\* the dictionary {k.lower().replace(' ', '_'): k for k in df.columns}: a
\* later column replaces an earlier one under the same key
available_columns(columns) ==
    [key \in {NormalizeName(columns[i]) : i \in DOMAIN columns} |->
        columns[MaxOf({i \in DOMAIN columns : NormalizeName(columns[i]) = key})]]

\* the alias that comes last among those present
FindColumnLastAlias(col_names, available) ==
    LET hits == {i \in DOMAIN col_names : col_names[i] \in DOMAIN available}
    IN  IF hits = {} THEN NoColumn ELSE available[col_names[MaxOf(hits)]]

\* one "for col_name in ...: if col_name in available_columns: ...; break"
FindColumn(col_names, available) ==
    LET hits == {i \in DOMAIN col_names : col_names[i] \in DOMAIN available}
    IN  IF hits = {} THEN NoColumn ELSE available[col_names[MinOf(hits)]]

\* the six column variables after the six loops
ResolveColumns(columns) ==
    LET available == available_columns(columns)
    IN  [qty_col |-> FindColumn(qty_columns, available),
         rm_col |-> FindColumn(rm_columns, available),
         material_col |-> FindColumn(material_columns, available),
         desc_col |-> FindColumn(desc_columns, available),
         value_col |-> FindColumn(value_columns, available),
         vendor_col |-> FindColumn(vendor_columns, available)]

\* the checks without the one on rm_col
MissingColumnNoRmCheck(cols) ==
    IF cols.qty_col = NoColumn
    THEN <<"QTY/Quantity column not found in inventory file">>
    ELSE IF cols.material_col = NoColumn
    THEN <<"Material/Part Number column not found in inventory file">>
    ELSE <<>>

\* the three "if not ..._col: st.error(...); return []": the message given
\* to st.error, or nothing
MissingColumn(cols) ==
    IF cols.qty_col = NoColumn
    THEN <<"QTY/Quantity column not found in inventory file">>
    ELSE IF cols.rm_col = NoColumn
    THEN <<"RM/RM IN QTY column not found in inventory file">>
    ELSE IF cols.material_col = NoColumn
    THEN <<"Material/Part Number column not found in inventory file">>
    ELSE <<>>

\* record.get(col, default)
Get(columns, record, col, default) ==
    IF \E i \in DOMAIN columns : columns[i] = col
    THEN record[CHOOSE i \in DOMAIN columns : columns[i] = col]
    ELSE default

\* the condition with qty > 0 in place of qty >= 0
RowValidStrictQty(material, qty, rm) ==
    /\ material # <<>>
    /\ Lower(material) # <<"n", "a", "n">>
    /\ FGt(qty, Fin(0, 1))
    /\ FGe(rm, Fin(0, 1))

\* the condition without the test on qty
RowValidNoQtyCheck(material, qty, rm) ==
    /\ material # <<>>
    /\ Lower(material) # <<"n", "a", "n">>
    /\ FGe(rm, Fin(0, 1))

\* material and material.lower() != 'nan' and qty >= 0 and rm >= 0
RowValid(material, qty, rm) ==
    /\ material # <<>>
    /\ Lower(material) # <<"n", "a", "n">>
    /\ FGe(qty, Fin(0, 1))
    /\ FGe(rm, Fin(0, 1))

\* one turn of the loop over df.iterrows(): the records appended, none or one
StandardizeRow(columns, cols, record) ==
    LET material == Strip(PyStr(Get(columns, record, cols.material_col, TextCell(<<>>))))
        qty == safe_float_convert(Get(columns, record, cols.qty_col, IntCell(0)))
        rm == safe_float_convert(Get(columns, record, cols.rm_col, IntCell(0)))
        vendor == IF cols.vendor_col # NoColumn
                  THEN Strip(PyStr(Get(columns, record, cols.vendor_col, TextCell(Unknown))))
                  ELSE Unknown
        description == IF cols.desc_col # NoColumn
                       THEN Strip(PyStr(Get(columns, record, cols.desc_col, TextCell(<<>>))))
                       ELSE <<>>
        stock_value == IF cols.value_col # NoColumn
                       THEN safe_int_convert(Get(columns, record, cols.value_col, IntCell(0)))
                       ELSE Fin(0, 1)
    IN  IF ~RowValid(material, qty, rm) THEN <<>>
        ELSE IF stock_value = OverflowError THEN <<>>
        ELSE << [Material |-> material,
                 Description |-> description,
                 QTY |-> qty,
                 RM_IN_QTY |-> rm,
                 Stock_Value |-> stock_value.n,
                 Vendor |-> vendor] >>

\* the loop that puts each new record in front of the earlier ones
RECURSIVE StandardizeRowsReversed(_, _, _, _)
StandardizeRowsReversed(columns, cols, rows, n) ==
    IF n = 0 THEN <<>>
    ELSE StandardizeRow(columns, cols, rows[n])
            \o StandardizeRowsReversed(columns, cols, rows, n - 1)

\* the loop over the first n rows
RECURSIVE StandardizeRows(_, _, _, _)
StandardizeRows(columns, cols, rows, n) ==
    IF n = 0 THEN <<>>
    ELSE StandardizeRows(columns, cols, rows, n - 1)
            \o StandardizeRow(columns, cols, rows[n])

\* df.empty: no rows or no columns
DfEmpty(df) == df.rows = <<>> \/ df.columns = <<>>

\* the whole method: what it returns, what it gave to st.error, and its
\* column variables when it returns
standardize_inventory_data(df) ==
    IF DfEmpty(df)
    THEN [data |-> <<>>, errors |-> <<>>, cols |-> ResolveColumns(<<>>)]
    ELSE LET cols == ResolveColumns(df.columns)
         IN  IF MissingColumn(cols) # <<>>
             THEN [data |-> <<>>, errors |-> MissingColumn(cols), cols |-> cols]
             ELSE [data |-> StandardizeRows(df.columns, cols, df.rows, Len(df.rows)),
                   errors |-> <<>>,
                   cols |-> cols]

(***************************************************************************)
(* InventoryAnalyzer.calculate_variance, determine_status, process_data    *)
(* and get_vendor_summary.                                                 *)
(***************************************************************************)
\* the variance taken relative to qty in place of rm
CalculateVarianceOverQty(qty, rm) ==
    IF FEq(rm, Fin(0, 1)) THEN <<Fin(0, 1), Fin(0, 1)>>
    ELSE <<FMul(FDiv(FSub(qty, rm), qty), Fin(100, 1)), FSub(qty, rm)>>

\* (variance_percent, variance_value)
calculate_variance(qty, rm) ==
    IF FEq(rm, Fin(0, 1)) THEN <<Fin(0, 1), Fin(0, 1)>>
    ELSE <<FMul(FDiv(FSub(qty, rm), rm), Fin(100, 1)), FSub(qty, rm)>>

\* the first comparison with < in place of <=
DetermineStatusStrict(variance_percent, tol) ==
    IF FLt(FAbs(variance_percent), Fin(tol, 1)) THEN "Within Norms"
    ELSE IF FGt(variance_percent, Fin(tol, 1)) THEN "Excess Inventory"
    ELSE "Short Inventory"

determine_status(variance_percent, tol) ==
    IF FLe(FAbs(variance_percent), Fin(tol, 1)) THEN "Within Norms"
    ELSE IF FGt(variance_percent, Fin(tol, 1)) THEN "Excess Inventory"
    ELSE "Short Inventory"

Statuses == {"Within Norms", "Excess Inventory", "Short Inventory"}

\* summary_data as process_data first builds it
EmptySummary == [s \in Statuses |-> [count |-> 0, value |-> 0]]

\* the dictionary with the variance value stored as the quantity
ProcessItemQtyOverwritten(item, tol) ==
    LET variance == calculate_variance(item.QTY, item.RM_IN_QTY)
    IN  [Material |-> item.Material,
         Description |-> item.Description,
         QTY |-> variance[2],
         RM_IN_QTY |-> item.RM_IN_QTY,
         Variance_Pct |-> variance[1],
         Variance_Value |-> variance[2],
         Status |-> determine_status(variance[1], tol),
         Stock_Value |-> item.Stock_Value,
         Vendor |-> item.Vendor]

\* the dictionary appended to processed_data for one item
ProcessItem(item, tol) ==
    LET variance == calculate_variance(item.QTY, item.RM_IN_QTY)
    IN  [Material |-> item.Material,
         Description |-> item.Description,
         QTY |-> item.QTY,
         RM_IN_QTY |-> item.RM_IN_QTY,
         Variance_Pct |-> variance[1],
         Variance_Value |-> variance[2],
         Status |-> determine_status(variance[1], tol),
         Stock_Value |-> item.Stock_Value,
         Vendor |-> item.Vendor]

\* the update that adds the value and leaves the count
UpdateSummaryNoCount(summary, status, stock_value) ==
    [summary EXCEPT ![status].value = @ + stock_value]

\* the update that sets the value to the stock value in place of adding it
UpdateSummarySetValue(summary, status, stock_value) ==
    [summary EXCEPT ![status].count = @ + 1, ![status].value = stock_value]

\* summary_data[status]['count'] += 1; summary_data[status]['value'] += stock_value
UpdateSummary(summary, status, stock_value) ==
    [summary EXCEPT ![status].count = @ + 1, ![status].value = @ + stock_value]

\* process_data after the first n items: (processed_data, summary_data)
RECURSIVE ProcessLoop(_, _, _)
ProcessLoop(items, tol, n) ==
    IF n = 0 THEN [processed |-> <<>>, summary |-> EmptySummary]
    ELSE LET before == ProcessLoop(items, tol, n - 1)
             processed_item == ProcessItem(items[n], tol)
         IN  [processed |-> Append(before.processed, processed_item),
              summary |-> UpdateSummary(before.summary, processed_item.Status,
                                        items[n].Stock_Value)]

process_data(items, tol) == ProcessLoop(items, tol, Len(items))

\* the entry get_vendor_summary makes for a vendor it has not seen
NewVendor ==
    [total_parts |-> 0, total_qty |-> Fin(0, 1), total_rm |-> Fin(0, 1),
     total_value |-> 0, short_parts |-> 0, excess_parts |-> 0, normal_parts |-> 0]

\* the turn that counts every record that is not short as normal
AddToVendorNoElif(entry, item) ==
    [total_parts |-> entry.total_parts + 1,
     total_qty |-> FAdd(entry.total_qty, item.QTY),
     total_rm |-> FAdd(entry.total_rm, item.RM_IN_QTY),
     total_value |-> entry.total_value + item.Stock_Value,
     short_parts |-> entry.short_parts
                        + (IF item.Status = "Short Inventory" THEN 1 ELSE 0),
     excess_parts |-> entry.excess_parts
                        + (IF item.Status = "Excess Inventory" THEN 1 ELSE 0),
     normal_parts |-> entry.normal_parts
                        + (IF item.Status # "Short Inventory" THEN 1 ELSE 0)]

\* one turn of get_vendor_summary's loop on an entry
AddToVendor(entry, item) ==
    [total_parts |-> entry.total_parts + 1,
     total_qty |-> FAdd(entry.total_qty, item.QTY),
     total_rm |-> FAdd(entry.total_rm, item.RM_IN_QTY),
     total_value |-> entry.total_value + item.Stock_Value,
     short_parts |-> entry.short_parts
                        + (IF item.Status = "Short Inventory" THEN 1 ELSE 0),
     excess_parts |-> entry.excess_parts
                        + (IF item.Status = "Excess Inventory" THEN 1 ELSE 0),
     normal_parts |-> entry.normal_parts
                        + (IF item.Status \notin {"Short Inventory", "Excess Inventory"}
                           THEN 1 ELSE 0)]

\* the loop that starts a new entry at every item, known vendor or not
RECURSIVE VendorLoopFreshEntry(_, _)
VendorLoopFreshEntry(processed, n) ==
    IF n = 0 THEN <<>>
    ELSE LET before == VendorLoopFreshEntry(processed, n - 1)
             item == processed[n]
         IN  [v \in DOMAIN before \cup {item.Vendor} |->
                 IF v = item.Vendor THEN AddToVendor(NewVendor, item) ELSE before[v]]

\* get_vendor_summary after the first n items
RECURSIVE VendorLoop(_, _)
VendorLoop(processed, n) ==
    IF n = 0 THEN <<>>
    ELSE LET before == VendorLoop(processed, n - 1)
             item == processed[n]
             entry == IF item.Vendor \in DOMAIN before
                      THEN before[item.Vendor] ELSE NewVendor
         IN  [v \in DOMAIN before \cup {item.Vendor} |->
                 IF v = item.Vendor THEN AddToVendor(entry, item) ELSE before[v]]

get_vendor_summary(processed) == VendorLoop(processed, Len(processed))

(***************************************************************************)
(* State.  The first group is one run of main(); the second is one call   *)
(* of each converter on one value.                                         *)
(***************************************************************************)
VARIABLES
    pc,              \* where main() stands
    uploaded_file,   \* what st.sidebar.file_uploader returned
    tolerance,       \* what the tolerance selectbox returned
    errors,          \* the messages standardize_inventory_data gave to st.error
    resolved,        \* the column variables of standardize_inventory_data
    standardized,    \* what standardize_inventory_data returned
    inventory_data,  \* main's inventory_data
    processed_data,  \* process_data's first result
    summary_data,    \* process_data's second result
    vendor_summary,  \* get_vendor_summary's result
    cv_value,        \* the value handed to the converters
    cv_float,        \* what safe_float_convert returned
    cv_int,          \* what safe_int_convert returned
    cv_pc            \* which converters have run

mvars == <<pc, uploaded_file, tolerance, errors, resolved, standardized,
           inventory_data, processed_data, summary_data, vendor_summary>>

cvars == <<cv_value, cv_float, cv_int, cv_pc>>

vars == <<mvars, cvars>>

\* uploaded_file is None
NoFile == [kind |-> "none", columns |-> <<>>, rows |-> <<>>]

\* a file that pd.read_csv or pd.read_excel raises on
UnreadableFile == [kind |-> "unreadable", columns |-> <<>>, rows |-> <<>>]

\* a file read as a table with a column label that is not text, on which
\* k.lower() raises in standardize_inventory_data
NonTextLabelFile == [kind |-> "non-text label", columns |-> <<>>, rows |-> <<>>]

\* a file read as the table with these columns and rows
TableFile(columns, rows) == [kind |-> "table", columns |-> columns, rows |-> rows]

\* a converter result not yet computed
NotRun == [k |-> "not run", n |-> 0, d |-> 1]

\* the converters are not in use
ConvIdle ==
    /\ cv_value = NaNCell
    /\ cv_float = NotRun
    /\ cv_int = NotRun
    /\ cv_pc = "off"

\* main() has computed nothing yet
NothingComputed ==
    /\ errors = <<>>
    /\ resolved = ResolveColumns(<<>>)
    /\ standardized = <<>>
    /\ processed_data = <<>>
    /\ summary_data = EmptySummary
    /\ vendor_summary = <<>>

(***************************************************************************)
(* The uploads of Spec: a table has one of the column layouts and at most  *)
(* MaxRows rows, each one of the row kinds laid out on the columns.        *)
(***************************************************************************)
ColMaterial == <<"M", "a", "t", "e", "r", "i", "a", "l">>

ColDescription == <<"D", "e", "s", "c", "r", "i", "p", "t", "i", "o", "n">>

ColQTY == <<"Q", "T", "Y">>

ColRMINQTY == <<"R", "M", " ", "I", "N", " ", "Q", "T", "Y">>

ColStockValue == <<"S", "t", "o", "c", "k", "_", "V", "a", "l", "u", "e">>

ColVendor == <<"V", "e", "n", "d", "o", "r">>

ColQty == <<"Q", "t", "y">>

ColQuantity == <<"Q", "u", "a", "n", "t", "i", "t", "y">>

ColRM == <<"R", "M">>

ColCode == <<"C", "o", "d", "e">>

ColPartNo == <<"P", "a", "r", "t", " ", "N", "o">>

ColSupplier == <<"S", "u", "p", "p", "l", "i", "e", "r">>

ColCost == <<"C", "o", "s", "t">>

ColValue == <<"V", "a", "l", "u", "e">>

ColStockQty == <<"S", "t", "o", "c", "k", " ", "Q", "t", "y">>

ColNormQty == <<"N", "o", "r", "m", " ", "Q", "t", "y">>

ColItemCode == <<"I", "t", "e", "m", " ", "C", "o", "d", "e">>

ColLowerQty == <<"q", "t", "y">>

ColRmInQty == <<"r", "m", "_", "i", "n", "_", "q", "t", "y">>

ColName == <<"N", "a", "m", "e">>

ColPrice == <<"P", "r", "i", "c", "e">>

Layouts ==
    { <<ColMaterial, ColDescription, ColQTY, ColRMINQTY, ColStockValue, ColVendor>>,
      <<ColQty, ColQuantity, ColRM, ColCode, ColVendor, ColSupplier, ColValue>>,
      <<ColQuantity, ColQty, ColRmInQty, ColPartNo, ColSupplier, ColVendor>>,
      <<ColMaterial, ColRMINQTY, ColVendor>>,
      <<ColMaterial, ColQTY, ColValue>>,
      <<ColQTY, ColRM, ColVendor>>,
      <<ColStockQty, ColNormQty, ColItemCode, ColSupplier, ColCost>>,
      <<ColQTY, ColLowerQty, ColRMINQTY, ColRmInQty, ColMaterial>>,
      <<ColLowerQty, ColQTY, ColRmInQty, ColRMINQTY, ColMaterial>>,
      <<ColName, ColPrice>> }

Txt(s) == TextCell(s)

\* a row that is kept: variance +50 percent
PlainRow ==
    [m |-> Txt(<<"A", "1">>), d |-> Txt(<<"n", "u", "t">>), q |-> FloatCell(Fin(3, 1)),
     r |-> FloatCell(Fin(2, 1)), v |-> IntCell(496), vd |-> Txt(<<"V", "1">>)]

\* a row that is kept, of text cells that need trimming and parsing:
\* variance -50 percent
TextRow ==
    [m |-> Txt(<<" ", "B", "2", " ">>), d |-> NaNCell, q |-> Txt(<<"1">>),
     r |-> Txt(<<"2", ".", "0">>), v |-> Txt(<<"1", ",", "0", "0", "0">>),
     vd |-> Txt(<<" ", "V", "2", " ">>)]

\* a row with an infinite required quantity, and a stock value in percent
InfRequiredRow ==
    [PlainRow EXCEPT !.r = Txt(<<"i", "n", "f">>), !.v = Txt(<<"4", "5", "%">>)]

\* a row without a material
NoMaterialRow == [PlainRow EXCEPT !.m = NaNCell]

RowKinds ==
    { PlainRow,
      TextRow,
      \* required quantity 0, a fractional stock value, no vendor
      [PlainRow EXCEPT !.r = FloatCell(Fin(0, 1)), !.v = FloatCell(Fin(5, 2)),
                       !.vd = NaNCell],
      \* quantity 0, a blank vendor
      [PlainRow EXCEPT !.q = IntCell(0), !.vd = Txt(<<" ">>)],
      \* material missing, "NaN", blank
      NoMaterialRow,
      [PlainRow EXCEPT !.m = Txt(<<"N", "a", "N">>)],
      [PlainRow EXCEPT !.m = Txt(<<" ", " ">>)],
      \* negative quantity, negative required quantity
      [PlainRow EXCEPT !.q = Txt(<<"-", "1">>)],
      [PlainRow EXCEPT !.r = FloatCell(Fin(-2, 1))],
      \* infinite required quantity
      InfRequiredRow,
      \* infinite quantity, a negative stock value
      [PlainRow EXCEPT !.q = FloatCell(PInf), !.v = Txt(<<"-", "5">>)],
      \* infinite stock value
      [PlainRow EXCEPT !.v = Txt(<<"i", "n", "f">>)] }

\* the cell a row kind puts under a column name; a table with two quantity
\* (required quantity, vendor) columns holds different values in the two
CellOf(kind, name) ==
    CASE name \in {ColMaterial, ColCode, ColPartNo, ColItemCode} -> kind.m
      [] name = ColDescription -> kind.d
      [] name \in {ColQTY, ColQty, ColStockQty} -> kind.q
      [] name \in {ColQuantity, ColLowerQty} -> FloatCell(Fin(9, 1))
      [] name \in {ColRMINQTY, ColRM, ColNormQty} -> kind.r
      [] name = ColRmInQty -> FloatCell(Fin(8, 1))
      [] name \in {ColStockValue, ColValue, ColCost} -> kind.v
      [] name = ColVendor -> kind.vd
      [] name = ColSupplier -> Txt(<<"S", "9">>)
      [] OTHER -> Txt(<<"z">>)

RowOf(kind, columns) == [i \in DOMAIN columns |-> CellOf(kind, columns[i])]

SeqsUpTo(S, n) == UNION {[1..m -> S] : m \in 0..n}

TablesOf(row_kinds) ==
    { TableFile(columns, [i \in DOMAIN kinds |-> RowOf(kinds[i], columns)]) :
        columns \in Layouts, kinds \in SeqsUpTo(row_kinds, MaxRows) }

\* the tables standardize_inventory_data is called on in SpecStandardize
Tables == TablesOf(RowKinds)

\* the uploads of main() in Spec
Files ==
    {NoFile, UnreadableFile, NonTextLabelFile}
        \cup TablesOf({PlainRow, TextRow, InfRequiredRow, NoMaterialRow})

\* the options of the tolerance selectbox
ToleranceOptions == {10, 20, 30, 40, 50}

(***************************************************************************)
(* main().                                                                 *)
(***************************************************************************)
Init ==
    /\ pc = "start"
    /\ uploaded_file = NoFile
    /\ tolerance = 30
    /\ inventory_data = <<>>
    /\ NothingComputed
    /\ ConvIdle

\* the two sidebar widgets
Widgets ==
    /\ pc = "start"
    /\ tolerance' \in ToleranceOptions
    /\ uploaded_file' \in Files
    /\ pc' = "widgets"
    /\ UNCHANGED <<errors, resolved, standardized, inventory_data, processed_data,
                   summary_data, vendor_summary, cvars>>

\* the loading that keeps an empty result of standardize_inventory_data
LoadDataNoFallback ==
    /\ pc = "widgets"
    /\ IF uploaded_file.kind = "table"
       THEN \E res \in {standardize_inventory_data(uploaded_file)} :
                /\ standardized' = res.data
                /\ errors' = res.errors
                /\ resolved' = res.cols
                /\ inventory_data' = res.data
       ELSE /\ inventory_data' = load_sample_data
            /\ UNCHANGED <<standardized, errors, resolved>>
    /\ pc' = "loaded"
    /\ UNCHANGED <<uploaded_file, tolerance, processed_data, summary_data,
                   vendor_summary, cvars>>

\* "# Load data": the sample data when there is no file, when reading or
\* standardizing it raises and when standardize_inventory_data returns an
\* empty list
LoadData ==
    /\ pc = "widgets"
    /\ IF uploaded_file.kind = "table"
       THEN \E res \in {standardize_inventory_data(uploaded_file)} :
                /\ standardized' = res.data
                /\ errors' = res.errors
                /\ resolved' = res.cols
                /\ inventory_data' = IF res.data # <<>> THEN res.data
                                                        ELSE load_sample_data
       ELSE /\ inventory_data' = load_sample_data
            /\ UNCHANGED <<standardized, errors, resolved>>
    /\ pc' = "loaded"
    /\ UNCHANGED <<uploaded_file, tolerance, processed_data, summary_data,
                   vendor_summary, cvars>>

\* "# Process data"
ProcessData ==
    /\ pc = "loaded"
    /\ \E res \in {process_data(inventory_data, tolerance)} :
           /\ processed_data' = res.processed
           /\ summary_data' = res.summary
    /\ pc' = "processed"
    /\ UNCHANGED <<uploaded_file, tolerance, errors, resolved, standardized,
                   inventory_data, vendor_summary, cvars>>

\* "# Vendor Summary"
VendorSummary ==
    /\ pc = "processed"
    /\ vendor_summary' = get_vendor_summary(processed_data)
    /\ pc' = "summarized"
    /\ UNCHANGED <<uploaded_file, tolerance, errors, resolved, standardized,
                   inventory_data, processed_data, summary_data, cvars>>

Next == Widgets \/ LoadData \/ ProcessData \/ VendorSummary

Spec == Init /\ [][Next]_vars

(***************************************************************************)
(* SpecStandardize: standardize_inventory_data called on every table of a  *)
(* bounded set.                                                            *)
(***************************************************************************)
InitStandardize ==
    /\ pc = "table"
    /\ uploaded_file \in Tables
    /\ tolerance = 30
    /\ inventory_data = <<>>
    /\ NothingComputed
    /\ ConvIdle

Standardize ==
    /\ pc = "table"
    /\ \E res \in {standardize_inventory_data(uploaded_file)} :
           /\ standardized' = res.data
           /\ errors' = res.errors
           /\ resolved' = res.cols
    /\ pc' = "standardized"
    /\ UNCHANGED <<uploaded_file, tolerance, inventory_data, processed_data,
                   summary_data, vendor_summary, cvars>>

NextStandardize == Standardize

SpecStandardize == InitStandardize /\ [][NextStandardize]_vars

(***************************************************************************)
(* SpecProcess: process_data and get_vendor_summary called on every record *)
(* sequence and tolerance of a bounded set.                                *)
(***************************************************************************)
ProcQuantities == {Fin(0, 1), Fin(1, 1), Fin(3, 1)}

ProcRequired == {Fin(0, 1), Fin(2, 1), PInf}

ProcRecords ==
    { [Material |-> <<"A", "1">>, Description |-> <<>>, QTY |-> q, RM_IN_QTY |-> r,
       Stock_Value |-> v, Vendor |-> vd] :
        q \in ProcQuantities, r \in ProcRequired, v \in {-5, 496},
        vd \in {<<"V", "1">>, <<"V", "2">>} }

ProcTolerances == {0, 50}

InitProcess ==
    /\ pc = "loaded"
    /\ uploaded_file = NoFile
    /\ tolerance \in ProcTolerances
    /\ inventory_data \in SeqsUpTo(ProcRecords, MaxRecs)
    /\ NothingComputed
    /\ ConvIdle

\* a rerun of the script on the same inventory_data and tolerance calls
\* process_data again
ProcessAgain ==
    /\ pc = "summarized"
    /\ \E res \in {process_data(inventory_data, tolerance)} :
           /\ processed_data' = res.processed
           /\ summary_data' = res.summary
    /\ pc' = "reprocessed"
    /\ UNCHANGED <<uploaded_file, tolerance, errors, resolved, standardized,
                   inventory_data, vendor_summary, cvars>>

NextProcess == ProcessData \/ VendorSummary \/ ProcessAgain

SpecProcess == InitProcess /\ [][NextProcess]_vars

(***************************************************************************)
(* SpecConv: the two converters applied to every value of a bounded set.   *)
(***************************************************************************)
ConvChars == {"0", "1", "5", "-", ".", ",", " ", "\t", "%", "n", "a", "i", "f", "x"}

\* longer texts: a number with a thousands separator, a percentage
ConvTexts ==
    { <<"1", ",", "2", "3", "4", ".", "5", "0">>, <<"4", "5", "%">>,
      <<" ", "1", " ", "0", "0", "0", " ", "%", " ">> }

ConvFloats == {Fin(0, 1), Fin(5, 2), Fin(-5, 2), Fin(496, 1), PInf, NInf, NaN}

ConvInputs ==
    {NaNCell, NoneCell} \cup {TextCell(s) : s \in SeqsUpTo(ConvChars, MaxLen)}
              \cup {TextCell(s) : s \in ConvTexts}
              \cup {FloatCell(x) : x \in ConvFloats}
              \cup {IntCell(i) : i \in {-7, 0, 496}}

InitConv ==
    /\ pc = "off"
    /\ uploaded_file = NoFile
    /\ tolerance = 30
    /\ inventory_data = <<>>
    /\ NothingComputed
    /\ cv_value \in ConvInputs
    /\ cv_float = NotRun
    /\ cv_int = NotRun
    /\ cv_pc = "input"

CallFloatConvert ==
    /\ cv_pc = "input"
    /\ cv_float' = safe_float_convert(cv_value)
    /\ cv_pc' = "float"
    /\ UNCHANGED <<cv_value, cv_int, mvars>>

CallIntConvert ==
    /\ cv_pc = "float"
    /\ cv_int' = safe_int_convert(cv_value)
    /\ cv_pc' = "done"
    /\ UNCHANGED <<cv_value, cv_float, mvars>>

NextConv == CallFloatConvert \/ CallIntConvert

SpecConv == InitConv /\ [][NextConv]_vars

(***************************************************************************)
(* Properties of process_data (SpecProcess, Spec).                         *)
(***************************************************************************)
Processed == pc \in {"processed", "summarized"}

\* C1: process_data gives every record exactly one of the three statuses,
\* one classified record per input record, and the three counts of the
\* status summary add up to the number of classified records.
C1_StatusPartition ==
    Processed =>
        /\ Len(processed_data) = Len(inventory_data)
        /\ \A i \in DOMAIN processed_data :
              Cardinality({s \in Statuses : processed_data[i].Status = s}) = 1
        /\ summary_data["Within Norms"].count
              + summary_data["Excess Inventory"].count
              + summary_data["Short Inventory"].count = Len(processed_data)

\* C1 witness: two records classified, with two different statuses
C1_Witness ==
    /\ pc = "processed"
    /\ Len(processed_data) = 2
    /\ processed_data[1].Status = "Short Inventory"
    /\ processed_data[2].Status = "Excess Inventory"

\* C2: a record whose required quantity is 0 gets variance_percent 0 and
\* the status Within Norms, whatever its quantity and the tolerance.
C2_ZeroRequiredWithinNorms ==
    Processed =>
        \A i \in DOMAIN processed_data :
            FEq(inventory_data[i].RM_IN_QTY, Fin(0, 1)) =>
                /\ processed_data[i].Variance_Pct = Fin(0, 1)
                /\ processed_data[i].Status = "Within Norms"

\* C2 witness: required quantity 0, quantity 3, tolerance 0
C2_Witness ==
    /\ pc = "processed"
    /\ tolerance = 0
    /\ \E i \in DOMAIN processed_data :
          /\ inventory_data[i].RM_IN_QTY = Fin(0, 1)
          /\ inventory_data[i].QTY = Fin(3, 1)
          /\ processed_data[i].Status = "Within Norms"

\* C3: the status is Within Norms iff |v| <= t, Excess Inventory iff v > t
\* and Short Inventory iff v < -t, for the variance_percent v of every
\* classified record and the tolerance t.
C3_StatusIffBand ==
    Processed =>
        \A i \in DOMAIN processed_data :
            LET v == processed_data[i].Variance_Pct
                t == Fin(tolerance, 1)
                status == processed_data[i].Status
            IN  /\ status = "Within Norms" <=> FLe(FAbs(v), t)
                /\ status = "Excess Inventory" <=> FGt(v, t)
                /\ status = "Short Inventory" <=> FLt(v, FNeg(t))

(***************************************************************************)
(* Properties of standardize_inventory_data (SpecStandardize).             *)
(***************************************************************************)
Standardized == pc = "standardized"

Columns == uploaded_file.columns

Rows == uploaded_file.rows

\* some column's normalized name is one of the aliases
Resolvable(aliases) ==
    \E i \in DOMAIN Columns :
        \E name \in {NormalizeName(Columns[i])} :
            \E j \in DOMAIN aliases : name = aliases[j]

RequiredMissing ==
    ~Resolvable(qty_columns) \/ ~Resolvable(rm_columns) \/ ~Resolvable(material_columns)

QtyMessage == "QTY/Quantity column not found in inventory file"

RmMessage == "RM/RM IN QTY column not found in inventory file"

MaterialMessage == "Material/Part Number column not found in inventory file"

\* the message names a field that no column resolves
NamesMissingField(message) ==
    \/ message = QtyMessage /\ ~Resolvable(qty_columns)
    \/ message = RmMessage /\ ~Resolvable(rm_columns)
    \/ message = MaterialMessage /\ ~Resolvable(material_columns)

\* the message of the first field, in the order quantity, required
\* quantity, material, that no column resolves
FirstMissingMessage ==
    IF ~Resolvable(qty_columns) THEN QtyMessage
    ELSE IF ~Resolvable(rm_columns) THEN RmMessage
    ELSE MaterialMessage

\* C4 as claimed: every table with an unresolved required field, a table
\* with no rows included, ends with an error that names a missing field and
\* with no records.
C4_MissingColumnAlwaysReported ==
    Standardized /\ RequiredMissing =>
        /\ standardized = <<>>
        /\ errors # <<>>
        /\ \A i \in DOMAIN errors : NamesMissingField(errors[i])

\* C4 as amended: a table with rows and an unresolved required field gives
\* st.error the one message of the first missing field and returns no
\* records; a table with no rows returns no records and reports nothing.
C4_MissingColumnReported ==
    Standardized /\ RequiredMissing =>
        /\ standardized = <<>>
        /\ errors = IF Rows = <<>> THEN <<>> ELSE <<FirstMissingMessage>>

\* C4 witness: a table with a row and no required-quantity column
C4_Witness ==
    /\ Standardized
    /\ Rows # <<>>
    /\ Resolvable(qty_columns)
    /\ ~Resolvable(rm_columns)
    /\ errors = <<RmMessage>>

\* the cell of row i under a column
CellAt(i, col) ==
    Rows[i][CHOOSE c \in DOMAIN Columns : Columns[c] = col]

\* what row i holds for the resolved material, quantity and required
\* quantity columns
MaterialOf(i) == Strip(PyStr(CellAt(i, resolved.material_col)))

QtyOf(i) == safe_float_convert(CellAt(i, resolved.qty_col))

RmOf(i) == safe_float_convert(CellAt(i, resolved.rm_col))

\* the conversion of row i's stock value raises
ExtractionRaises(i) ==
    /\ resolved.value_col # NoColumn
    /\ safe_int_convert(CellAt(i, resolved.value_col)) = OverflowError

\* row i satisfies the record invariant as the specification words it
MeetsInvariant(i) ==
    /\ MaterialOf(i) # <<>>
    /\ MaterialOf(i) # <<"n", "a", "n">>
    /\ FGe(QtyOf(i), Fin(0, 1))
    /\ FGe(RmOf(i), Fin(0, 1))

\* a record of the output was made from row i
Emitted(i) ==
    \E made \in {<<MaterialOf(i), QtyOf(i), RmOf(i)>>} :
        \E j \in DOMAIN standardized :
            /\ standardized[j].Material = made[1]
            /\ standardized[j].QTY = made[2]
            /\ standardized[j].RM_IN_QTY = made[3]

\* C5: every emitted record has a trimmed, non-empty material that is not
\* "nan", a quantity >= 0 and a required quantity >= 0; rows that violate
\* this are left out, and leaving them out reports no error.
C5_EmittedRecordsValid ==
    Standardized /\ ~RequiredMissing =>
        /\ \A j \in DOMAIN standardized :
              /\ standardized[j].Material = Strip(standardized[j].Material)
              /\ standardized[j].Material # <<>>
              /\ standardized[j].Material # <<"n", "a", "n">>
              /\ FGe(standardized[j].QTY, Fin(0, 1))
              /\ FGe(standardized[j].RM_IN_QTY, Fin(0, 1))
        /\ Len(standardized) <= Cardinality({i \in DOMAIN Rows : MeetsInvariant(i)})
        /\ errors = <<>>

\* C5 witness: of two rows one violates the invariant and one is emitted
C5_Witness ==
    /\ Standardized
    /\ ~RequiredMissing
    /\ Len(Rows) = 2
    /\ ~MeetsInvariant(1)
    /\ Len(standardized) = 1
    /\ errors = <<>>

\* the rows that meet the invariant, "nan" compared in any letter case, and
\* whose extraction does not raise
KeptRows ==
    {i \in DOMAIN Rows :
        /\ MeetsInvariant(i)
        /\ Lower(MaterialOf(i)) # <<"n", "a", "n">>
        /\ ~ExtractionRaises(i)}

\* C6 as claimed: a row that meets the invariant, "nan" compared in its own
\* letter case, and whose extraction does not raise, is in the output.
C6_ValidRowsEmittedCaseSensitive ==
    Standardized /\ ~RequiredMissing =>
        \A i \in DOMAIN Rows :
            MeetsInvariant(i) /\ ~ExtractionRaises(i) => Emitted(i)

\* C6 as amended: a row whose trimmed material is non-empty and is not
\* "nan" in any letter case, whose quantity and required quantity are >= 0
\* and whose extraction does not raise, is in the output, which holds at
\* least one record for each such row.
C6_ValidRowsEmitted ==
    Standardized /\ ~RequiredMissing =>
        /\ \A i \in KeptRows : Emitted(i)
        /\ Len(standardized) >= Cardinality(KeptRows)

\* C6 witness: a row with quantity 0 that meets the invariant is emitted,
\* next to a row whose material is NaN in mixed case
C6_Witness ==
    /\ Standardized
    /\ ~RequiredMissing
    /\ Len(Rows) = 2
    /\ MaterialOf(1) = <<"N", "a", "N">>
    /\ MeetsInvariant(2)
    /\ QtyOf(2) = Fin(0, 1)
    /\ Len(standardized) = 1
    /\ Emitted(2)

\* C7: every emitted record has a stock value >= 0.
C7_StockValueNonNegative ==
    Standardized =>
        \A j \in DOMAIN standardized : standardized[j].Stock_Value >= 0

\* the row the j-th record of the output was made from
KeptRow(j) == CHOOSE i \in KeptRows : Cardinality({k \in KeptRows : k <= i}) = j

\* the vendor cell of row i is null, empty or blank
VendorCellEmpty(i) ==
    \/ IsBlank(CellAt(i, resolved.vendor_col))
    \/ Strip(PyStr(CellAt(i, resolved.vendor_col))) = <<>>

\* C8: the vendor of a retained row is "Unknown" when no vendor column is
\* resolved and when the row's vendor cell is empty, and the trimmed text
\* of the cell otherwise.
C8_VendorDefaultsToUnknown ==
    Standardized /\ ~RequiredMissing /\ Len(standardized) = Cardinality(KeptRows) =>
        \A j \in DOMAIN standardized :
            standardized[j].Vendor =
                IF resolved.vendor_col = NoColumn THEN Unknown
                ELSE IF VendorCellEmpty(KeptRow(j)) THEN Unknown
                ELSE Strip(PyStr(CellAt(KeptRow(j), resolved.vendor_col)))

\* the canonical fields: the column variable and the alias list of each
Fields ==
    { <<"qty_col", qty_columns>>, <<"rm_col", rm_columns>>,
      <<"material_col", material_columns>>, <<"desc_col", desc_columns>>,
      <<"value_col", value_columns>>, <<"vendor_col", vendor_columns>> }

\* the positions, in an alias list, of the aliases some column matches
MatchedAliases(aliases) ==
    {j \in DOMAIN aliases :
        \E name \in {NormalizeName(Columns[i]) : i \in DOMAIN Columns} :
            name = aliases[j]}

HasColumn(name) == \E i \in DOMAIN Columns : Columns[i] = name

\* C9: each field resolves to a column whose normalized name is the
\* earliest alias of the field's list that some column matches, and to no
\* column when none matches; with columns "Qty" and "Quantity" both there,
\* in either order, the quantity field resolves to "Qty".
C9_FirstAliasWins ==
    Standardized /\ Rows # <<>> =>
        /\ \A f \in Fields :
              LET matched == MatchedAliases(f[2])
              IN  IF matched = {} THEN resolved[f[1]] = NoColumn
                  ELSE /\ HasColumn(resolved[f[1]])
                       /\ NormalizeName(resolved[f[1]]) = f[2][MinOf(matched)]
        /\ HasColumn(ColQty) /\ HasColumn(ColQuantity) => resolved.qty_col = ColQty

\* C9 witness: "Quantity" stands before "Qty" and the field resolves to "Qty"
C9_Witness ==
    /\ Standardized
    /\ Rows # <<>>
    /\ Columns[1] = ColQuantity
    /\ Columns[2] = ColQty
    /\ resolved.qty_col = ColQty
    /\ standardized # <<>>
    /\ \A j \in DOMAIN standardized : standardized[j].QTY = QtyOf(KeptRow(j))

(***************************************************************************)
(* Properties of the converters (SpecConv).                                *)
(***************************************************************************)
\* C10: safe_int_convert(v) is safe_float_convert(v) cut toward zero, for
\* every value v that safe_float_convert gives a finite number for.
C10_IntIsTruncatedFloat ==
    cv_pc = "done" /\ IsFin(cv_float) => cv_int = Fin(TruncToInt(cv_float), 1)

\* the value is null or the empty text
NullOrEmpty(value) ==
    \/ value \in {NaNCell, NoneCell}
    \/ value.t = "float" /\ IsNaN(value.x)
    \/ value = TextCell(<<>>)

\* a text with its commas and whitespace removed, and then one trailing '%'
WithoutSeparators(s) ==
    LET kept == SelectSeq(s, LAMBDA c : c # "," /\ c \notin Whitespace)
    IN  IF kept # <<>> /\ kept[Len(kept)] = "%"
        THEN SubSeq(kept, 1, Len(kept) - 1)
        ELSE kept

\* the number read from the text of a value once its commas, its whitespace
\* and one trailing '%' are removed, 0.0 when nothing can be read
NumberWithoutSeparators(value) ==
    LET parsed == PyFloat(WithoutSeparators(PyStr(value)))
    IN  IF parsed = ValueError THEN Fin(0, 1) ELSE parsed

FloatConverted == cv_pc \in {"float", "done"}

\* C11: safe_float_convert raises on no value; it returns 0.0 for a null,
\* empty or unparseable value and otherwise the number parsed once commas,
\* whitespace and one trailing '%' are removed: "1,234.50" gives 1234.5,
\* "45%" gives 45.0, "" gives 0.0 and None gives 0.0.
C11_FloatConvertTolerant ==
    FloatConverted =>
        /\ cv_float.k \in {"fin", "inf", "nan"}
        /\ cv_float = IF NullOrEmpty(cv_value) THEN Fin(0, 1)
                      ELSE NumberWithoutSeparators(cv_value)
        /\ cv_value = TextCell(<<"1", ",", "2", "3", "4", ".", "5", "0">>)
              => cv_float = Fin(12345, 10)
        /\ cv_value = TextCell(<<"4", "5", "%">>) => cv_float = Fin(45, 1)
        /\ cv_value \in {TextCell(<<>>), NoneCell} => cv_float = Fin(0, 1)

\* the part of C11 that the code keeps: no exception, the four examples,
\* and the claimed number for every value without a tab inside its text
C11_FloatConvertTolerantOfSpaces ==
    FloatConverted =>
        /\ cv_float.k \in {"fin", "inf", "nan"}
        /\ (\A i \in DOMAIN Strip(PyStr(cv_value)) : Strip(PyStr(cv_value))[i] # "\t")
              => cv_float = IF NullOrEmpty(cv_value) THEN Fin(0, 1)
                            ELSE NumberWithoutSeparators(cv_value)
        /\ cv_value = TextCell(<<"1", ",", "2", "3", "4", ".", "5", "0">>)
              => cv_float = Fin(12345, 10)
        /\ cv_value = TextCell(<<"4", "5", "%">>) => cv_float = Fin(45, 1)
        /\ cv_value \in {TextCell(<<>>), NoneCell} => cv_float = Fin(0, 1)

\* the positions of the classified records with a status
WithStatus(status) == {i \in DOMAIN processed_data : processed_data[i].Status = status}

\* the sum of the stock values of the classified records at the positions S
RECURSIVE StockValueOf(_)
StockValueOf(S) ==
    IF S = {} THEN 0
    ELSE LET i == MaxOf(S)
         IN  StockValueOf(S \ {i}) + processed_data[i].Stock_Value

\* C12: the status summary of process_data has exactly the three status
\* keys, with all counts and values 0 for an empty record sequence; the
\* count of a status is the number of classified records with that status
\* and its value is the sum of their stock values.
C12_SummaryCountsAndValues ==
    Processed =>
        /\ DOMAIN summary_data = {"Within Norms", "Excess Inventory", "Short Inventory"}
        /\ \A status \in DOMAIN summary_data :
              /\ DOMAIN summary_data[status] = {"count", "value"}
              /\ summary_data[status].count = Cardinality(WithStatus(status))
              /\ summary_data[status].value = StockValueOf(WithStatus(status))
        /\ inventory_data = <<>> =>
              \A status \in DOMAIN summary_data :
                  summary_data[status] = [count |-> 0, value |-> 0]

\* C12 witness: two records with the same status and different stock
\* values, summed under that status, the other two statuses at 0
C12_Witness ==
    /\ pc = "processed"
    /\ Len(processed_data) = 2
    /\ processed_data[1].Status = "Excess Inventory"
    /\ processed_data[2].Status = "Excess Inventory"
    /\ processed_data[1].Stock_Value = 496
    /\ processed_data[2].Stock_Value = -5
    /\ summary_data["Excess Inventory"] = [count |-> 2, value |-> 491]
    /\ summary_data["Within Norms"] = [count |-> 0, value |-> 0]

(***************************************************************************)
(* Properties of get_vendor_summary (SpecProcess, Spec).                   *)
(***************************************************************************)
Summarized == pc = "summarized"

\* the positions of the classified records of a vendor
OfVendor(vendor) == {i \in DOMAIN processed_data : processed_data[i].Vendor = vendor}

\* the sum, from 0 and in record order, of the quantities (required
\* quantities) of the classified records at the positions S
RECURSIVE QtyOver(_)
QtyOver(S) ==
    IF S = {} THEN Fin(0, 1)
    ELSE LET i == MaxOf(S)
         IN  FAdd(QtyOver(S \ {i}), processed_data[i].QTY)

RECURSIVE RmOver(_)
RmOver(S) ==
    IF S = {} THEN Fin(0, 1)
    ELSE LET i == MaxOf(S)
         IN  FAdd(RmOver(S \ {i}), processed_data[i].RM_IN_QTY)

\* C13: the keys of the vendor summary are exactly the vendors of the
\* classified records; for each vendor total_parts is the number of its
\* records, the short, excess and normal counts are the numbers of its
\* records with each status and add up to total_parts, and total_qty,
\* total_rm and total_value are the sums over its records.
C13_VendorSummaryPerVendor ==
    Summarized =>
        /\ DOMAIN vendor_summary
              = {processed_data[i].Vendor : i \in DOMAIN processed_data}
        /\ \A vendor \in DOMAIN vendor_summary :
              LET own == OfVendor(vendor)
                  entry == vendor_summary[vendor]
              IN  /\ own # {}
                  /\ entry.total_parts = Cardinality(own)
                  /\ entry.short_parts = Cardinality(own \cap WithStatus("Short Inventory"))
                  /\ entry.excess_parts = Cardinality(own \cap WithStatus("Excess Inventory"))
                  /\ entry.normal_parts = Cardinality(own \cap WithStatus("Within Norms"))
                  /\ entry.short_parts + entry.excess_parts + entry.normal_parts
                        = entry.total_parts
                  /\ entry.total_qty = QtyOver(own)
                  /\ entry.total_rm = RmOver(own)
                  /\ entry.total_value = StockValueOf(own)

\* C13 witness: two records of vendor "V1", one short and one in excess
C13_Witness ==
    /\ Summarized
    /\ Len(processed_data) = 2
    /\ processed_data[1].Vendor = <<"V", "1">>
    /\ processed_data[2].Vendor = <<"V", "1">>
    /\ processed_data[1].Status = "Short Inventory"
    /\ processed_data[2].Status = "Excess Inventory"
    /\ DOMAIN vendor_summary = {<<"V", "1">>}
    /\ vendor_summary[<<"V", "1">>].total_parts = 2
    /\ vendor_summary[<<"V", "1">>].short_parts = 1
    /\ vendor_summary[<<"V", "1">>].excess_parts = 1
    /\ vendor_summary[<<"V", "1">>].normal_parts = 0

(***************************************************************************)
(* Properties of a second run of process_data (SpecProcess).               *)
(***************************************************************************)
\* the fields process_data copies from a record to its classified record
CarriedFields == {"Material", "Description", "QTY", "RM_IN_QTY", "Stock_Value", "Vendor"}

\* a step that runs process_data leaves inventory_data as it was and ends
\* with one classified record per record, with the copied fields equal
CarriesRecordsOver ==
    /\ inventory_data' = inventory_data
    /\ tolerance' = tolerance
    /\ DOMAIN processed_data' = DOMAIN inventory_data
    /\ \A i \in DOMAIN inventory_data :
          \A f \in CarriedFields : processed_data'[i][f] = inventory_data[i][f]

MadeFrom(i, qty, rm, value) ==
    /\ inventory_data[i].QTY = safe_float_convert(TextCell(qty))
    /\ inventory_data[i].RM_IN_QTY = safe_float_convert(TextCell(rm))
    /\ inventory_data[i].Stock_Value = safe_int_convert(TextCell(value)).n

\* C15: at tolerance 30 an input row with quantity "5.230", required
\* quantity "4.000" and value "496" is classified with variance_percent
\* 30.75 and Excess Inventory, and a row with "15.940", "20.000" and "992"
\* with variance_percent -20.3 and Within Norms.
C15_EndToEndScenario ==
    Processed /\ tolerance = 30 =>
        \A i \in DOMAIN processed_data :
            /\ MadeFrom(i, <<"5", ".", "2", "3", "0">>, <<"4", ".", "0", "0", "0">>,
                        <<"4", "9", "6">>)
                  => /\ processed_data[i].Variance_Pct = Fin(3075, 100)
                     /\ processed_data[i].Status = "Excess Inventory"
                     /\ processed_data[i].Stock_Value = 496
            /\ MadeFrom(i, <<"1", "5", ".", "9", "4", "0">>,
                        <<"2", "0", ".", "0", "0", "0">>, <<"9", "9", "2">>)
                  => /\ processed_data[i].Variance_Pct = Fin(-203, 10)
                     /\ processed_data[i].Status = "Within Norms"
                     /\ processed_data[i].Stock_Value = 992

\* C15 witness: the sample data, whose first and fifth rows are the two
\* rows, classified at tolerance 30
C15_Witness ==
    /\ pc = "processed"
    /\ tolerance = 30
    /\ uploaded_file = NoFile
    /\ Len(processed_data) = 20
    /\ MadeFrom(1, <<"5", ".", "2", "3", "0">>, <<"4", ".", "0", "0", "0">>,
                <<"4", "9", "6">>)
    /\ MadeFrom(5, <<"1", "5", ".", "9", "4", "0">>,
                <<"2", "0", ".", "0", "0", "0">>, <<"9", "9", "2">>)
    /\ processed_data[1].Status = "Excess Inventory"
    /\ processed_data[5].Status = "Within Norms"

(***************************************************************************)
(* Properties of the order of standardize_inventory_data's output          *)
(* (SpecStandardize).                                                      *)
(***************************************************************************)
\* record j of the output holds what row i holds
RecordOfRow(j, i) ==
    /\ standardized[j].Material = MaterialOf(i)
    /\ standardized[j].QTY = QtyOf(i)
    /\ standardized[j].RM_IN_QTY = RmOf(i)

\* C16: the output is a subsequence of the input rows in row order: the
\* records can be matched to rows one to one, a later record to a later
\* row, so no row yields two records and no two records change places.
C16_OutputInRowOrder ==
    Standardized =>
        /\ Len(standardized) <= Len(Rows)
        /\ \E from \in [DOMAIN standardized -> DOMAIN Rows] :
              /\ \A j, k \in DOMAIN standardized : j < k => from[j] < from[k]
              /\ \A j \in DOMAIN standardized : RecordOfRow(j, from[j])

\* C16 witness: two rows with different materials, both retained, the
\* record of the first row first
C16_Witness ==
    /\ Standardized
    /\ ~RequiredMissing
    /\ Len(Rows) = 2
    /\ Len(standardized) = 2
    /\ MaterialOf(1) # MaterialOf(2)
    /\ RecordOfRow(1, 1)
    /\ RecordOfRow(2, 2)

(***************************************************************************)
(* Properties of the variance value (SpecProcess).                         *)
(***************************************************************************)
\* C17: the variance_value of every classified record is its quantity
\* minus its required quantity, a required quantity of 0 included.
C17_VarianceValueIsDifference ==
    Processed =>
        \A i \in DOMAIN processed_data :
            processed_data[i].Variance_Value
                = FSub(processed_data[i].QTY, processed_data[i].RM_IN_QTY)

\* the part of C17 that the code keeps: the difference for a required
\* quantity other than 0, and 0 for a required quantity of 0
C17_VarianceValueUnlessZeroRequired ==
    Processed =>
        \A i \in DOMAIN processed_data :
            processed_data[i].Variance_Value
                = IF FEq(processed_data[i].RM_IN_QTY, Fin(0, 1)) THEN Fin(0, 1)
                  ELSE FSub(processed_data[i].QTY, processed_data[i].RM_IN_QTY)

(***************************************************************************)
(* Properties of main()'s data loading (Spec).                             *)
(***************************************************************************)
Loaded == pc \in {"loaded", "processed", "summarized"}

\* the upload gave no record: no file, a file whose reading or
\* standardization raises, or a table that standardizes to nothing
NothingUsable == uploaded_file.kind # "table" \/ standardized = <<>>

\* C18: whatever the upload, the records handed to process_data are not
\* empty, the 20 sample records standing in for an empty or failed result;
\* so the number of classified records, total_parts, is above 0 and the
\* vendor summary has a vendor when the analysis summary divides by them.
C18_ProcessedNeverEmpty ==
    /\ Loaded => /\ inventory_data # <<>>
                 /\ NothingUsable => /\ inventory_data = load_sample_data
                                     /\ Len(inventory_data) = 20
                 /\ ~NothingUsable => inventory_data = standardized
    /\ Processed => Len(processed_data) > 0
    /\ Summarized => Cardinality(DOMAIN vendor_summary) > 0

\* C18 witness: an uploaded table whose rows are all invalid, replaced by
\* the sample records, through to the vendor summary
C18_Witness ==
    /\ Summarized
    /\ uploaded_file.kind = "table"
    /\ Rows # <<>>
    /\ ~RequiredMissing
    /\ standardized = <<>>
    /\ Len(processed_data) = 20
    /\ Cardinality(DOMAIN vendor_summary) = 5

(***************************************************************************)
(* Properties that join the status summary and the vendor summary          *)
(* (SpecProcess).                                                          *)
(***************************************************************************)
\* the sum of one count (or of total_value) over the vendors V
RECURSIVE OverVendors(_, _)
OverVendors(V, field) ==
    IF V = {} THEN 0
    ELSE LET v == CHOOSE w \in V : TRUE
         IN  vendor_summary[v][field] + OverVendors(V \ {v}, field)

\* C19: the two summaries of the same classified records agree: the count
\* of each status is the sum over the vendors of their count for that
\* status, the sum of total_parts is the number of classified records, and
\* the sum of total_value is the sum of the three status values.
C19_SummariesAgree ==
    Summarized =>
        LET vendors == DOMAIN vendor_summary
        IN  /\ summary_data["Short Inventory"].count = OverVendors(vendors, "short_parts")
            /\ summary_data["Excess Inventory"].count = OverVendors(vendors, "excess_parts")
            /\ summary_data["Within Norms"].count = OverVendors(vendors, "normal_parts")
            /\ OverVendors(vendors, "total_parts") = Len(processed_data)
            /\ OverVendors(vendors, "total_value")
                  = summary_data["Short Inventory"].value
                        + summary_data["Excess Inventory"].value
                        + summary_data["Within Norms"].value

\* C19 witness: two vendors, one with a short record and one with a record
\* in excess, of different stock values
C19_Witness ==
    /\ Summarized
    /\ Len(processed_data) = 2
    /\ Cardinality(DOMAIN vendor_summary) = 2
    /\ processed_data[1].Status = "Short Inventory"
    /\ processed_data[2].Status = "Excess Inventory"
    /\ processed_data[1].Stock_Value # processed_data[2].Stock_Value
    /\ vendor_summary[processed_data[1].Vendor].short_parts = 1
    /\ vendor_summary[processed_data[2].Vendor].excess_parts = 1
    /\ summary_data["Short Inventory"].count = 1

(***************************************************************************)
(* Properties of columns with the same normalized name (SpecStandardize).  *)
(***************************************************************************)
\* the last column, in column order, among those with a normalized name
LastNamed(names, name) == MaxOf({i \in DOMAIN names : names[i] = name})

\* the normalized names of the columns, in column order
ColumnNames == [i \in DOMAIN Columns |-> NormalizeName(Columns[i])]

\* some record of the output holds the quantity and the required quantity
\* that a row holds in these two columns
ReadFrom(j, qty_at, rm_at) ==
    \E i \in DOMAIN Rows :
        /\ standardized[j].QTY = safe_float_convert(Rows[i][qty_at])
        /\ standardized[j].RM_IN_QTY = safe_float_convert(Rows[i][rm_at])

\* C20: when several columns have the same normalized name, a field that
\* resolves to that name resolves to the last of them in column order, and
\* the quantity and the required quantity of every record are read from
\* that last column.
C20_LastDuplicateWins ==
    Standardized /\ Rows # <<>> =>
        \E names \in {ColumnNames} :
            /\ \A f \in Fields :
                  resolved[f[1]] # NoColumn =>
                      \E c \in DOMAIN Columns :
                          /\ Columns[c] = resolved[f[1]]
                          /\ c = LastNamed(names, names[c])
            /\ ~RequiredMissing =>
                  \E at \in {<<LastNamed(names, NormalizeName(resolved.qty_col)),
                              LastNamed(names, NormalizeName(resolved.rm_col))>>} :
                      \A j \in DOMAIN standardized : ReadFrom(j, at[1], at[2])

\* C20 witness: "QTY" before "qty" and "RM IN QTY" before "rm_in_qty"; both
\* fields resolve to the later column, whose 9 and 8 the record holds, not
\* the 3 and 2 of the earlier columns
C20_Witness ==
    /\ Standardized
    /\ Columns = <<ColQTY, ColLowerQty, ColRMINQTY, ColRmInQty, ColMaterial>>
    /\ Rows = <<RowOf(PlainRow, Columns)>>
    /\ resolved.qty_col = ColLowerQty
    /\ resolved.rm_col = ColRmInQty
    /\ Len(standardized) = 1
    /\ standardized[1].QTY = Fin(9, 1)
    /\ standardized[1].RM_IN_QTY = Fin(8, 1)

=============================================================================
